---- MODULE Spec2Model ----
(***************************************************************************)
(* A model of src/form.ts: the leaf node ScalarModel, the composite node   *)
(* ComplexModel, the recursive constructor that builds a tree of them from *)
(* a definition object, and the built-in rules.                            *)
(*                                                                         *)
(* JavaScript values are tagged records, so that undefined, null, false,   *)
(* 0, NaN and '' stay distinct and the code's truthiness tests, property   *)
(* lookups and coercions are computed the way the language computes them.  *)
(* A call that ends in a TypeError is a call whose outcome has threw set:  *)
(* the assignments made before the throw are kept.                         *)
(***************************************************************************)
EXTENDS Integers, Sequences, FiniteSets, TLC

VARIABLES
    model,      \* the live node the caller holds: a ScalarModel or a ComplexModel
    input,      \* the arguments the model was constructed from (never changes)
    ret,        \* the last call made by the caller, and how it ended
    returned,   \* per leaf path: what the last validate() of that leaf returned
    heap        \* the objects held by reference: heap[a] is the elements of the
                \* array, the state of the leaf, or the properties of the
                \* record, at address a

vars == <<model, input, ret, returned, heap>>

(***************************************************************************)
(* Bounds of the model.                                                    *)
(***************************************************************************)
\* longest user-supplied rule chain of a directly constructed leaf
MaxRules == 2
\* deepest nesting of group definitions handed to the tree builder
MaxDepth == 2
\* most arrays in the heap of a leaf with an array-valued initial value
MaxCells == 6
\* longest array a caller grows by push
MaxLen == 3
\* the caller reads the value of a member while the heap holds fewer records
MaxRecords == 6

(***************************************************************************)
(* JavaScript values.                                                      *)
(***************************************************************************)
Undefined == [k |-> "undefined"]
Null == [k |-> "null"]
Bool(b) == [k |-> "boolean", b |-> b]
Num(n) == [k |-> "number", nan |-> FALSE, n |-> n]
NaN == [k |-> "number", nan |-> TRUE, n |-> 0]
Str(s) == [k |-> "string", s |-> s]
\* an array, by its elements
Arr(elems) == [k |-> "array", elems |-> elems]
\* a plain object, by its own properties (a function from names to values)
Obj(props) == [k |-> "object", o |-> props]
EmptyProps == [x \in {} |-> Undefined]

\* !v : the values JavaScript treats as false
Falsy(v) ==
    \/ v.k \in {"undefined", "null"}
    \/ v.k = "boolean" /\ ~v.b
    \/ v.k = "number" /\ (v.nan \/ v.n = 0)
    \/ v.k = "string" /\ v.s = ""

\* Boolean(v)
Boolean(v) == ~Falsy(v)

\* v[key] for a value that is neither null nor undefined: an own property of
\* an object, undefined for a name the value does not carry
Get(v, key) ==
    IF v.k = "object" /\ key \in DOMAIN v.o THEN v.o[key] ELSE Undefined

\* v[key] throws a TypeError exactly for null and undefined
GetThrows(v) == v.k \in {"undefined", "null"}

\* the strings of the model, parsed as the language's StringToNumber parses them
StringToNumber(s) ==
    CASE s = "" -> Num(0)
      [] s = "1" -> Num(1)
      [] OTHER -> NaN

\* Number(v)
RECURSIVE Number(_)
Number(v) ==
    CASE v.k = "undefined" -> NaN
      [] v.k = "null" -> Num(0)
      [] v.k = "boolean" -> Num(IF v.b THEN 1 ELSE 0)
      [] v.k = "number" -> v
      [] v.k = "string" -> StringToNumber(v.s)
      [] v.k = "array" ->
            \* an array is first joined to a string: '' for no element, the
            \* element's own string for one element, 'x,y' (not a number) for more
            IF Len(v.elems) = 0 THEN Num(0)
            ELSE IF Len(v.elems) > 1 THEN NaN
            ELSE IF v.elems[1].k \in {"undefined", "null"} THEN Num(0)
            ELSE IF v.elems[1].k \in {"number", "string", "array"} THEN Number(v.elems[1])
            ELSE NaN
      [] OTHER -> NaN

\* lodash isNaN: a number that is not equal to itself
isNaN(v) == v.k = "number" /\ v.nan

\* lodash includes on an array: some element is the same value (SameValueZero)
includes(collection, v) == \E i \in 1..Len(collection) : collection[i] = v

\* lodash isEmpty: null and undefined are empty, a string or an array is empty
\* when its length is 0, an object when it has no own property, and every other
\* value (a number, a boolean) is empty
isEmpty(v) ==
    CASE v.k \in {"undefined", "null"} -> TRUE
      [] v.k = "string" -> v.s = ""
      [] v.k = "array" -> Len(v.elems) = 0
      [] v.k = "object" -> DOMAIN v.o = {}
      [] OTHER -> TRUE

\* lodash clone: a primitive is returned as it is, an array or an object is
\* copied one level deep (the copy holds the same elements)
clone(v) ==
    CASE v.k = "array" -> Arr([i \in 1..Len(v.elems) |-> v.elems[i]])
      [] v.k = "object" -> Obj([p \in DOMAIN v.o |-> v.o[p]])
      [] OTHER -> v

\* a && b
AndAnd(a, b) == IF Falsy(a) THEN a ELSE b

(***************************************************************************)
(* Rules.  A rule is named; check applies the named rule to a value.       *)
(***************************************************************************)
\* The three messages of the built-in rules, written with the JSON escapes of
\* their characters (a string of the module holds ASCII only).
NonNullableMessage == "\\u4e0d\\u80fd\\u4e3a\\u7a7a"
MustBeNumberMessage == "\\u5fc5\\u987b\\u4e3a\\u6570\\u5b57"
AtLeastOneMessage == "\\u81f3\\u5c11\\u9009\\u62e9\\u4e00\\u9879"

\* const nonNullable: Validate = val => includes([null, undefined, ''], val) && '...'
nonNullable(val) ==
    AndAnd(Bool(includes(<<Null, Undefined, Str("")>>, val)), Str(NonNullableMessage))

\* a numeric check that does not coerce null to 0: null is rejected as well
mustBeNumberRejectsNull(val) ==
    AndAnd(Bool(val = Null \/ isNaN(Number(val))), Str(MustBeNumberMessage))

\* export const mustBeNumber: Validate = val => isNaN(Number(val)) && '...'
mustBeNumber(val) == AndAnd(Bool(isNaN(Number(val))), Str(MustBeNumberMessage))

\* export const atLeastOne: Validate = val => isEmpty(val) && '...'
atLeastOne(val) == AndAnd(Bool(isEmpty(val)), Str(AtLeastOneMessage))

\* caller-supplied rules: r1 rejects every value with "A", r2 with "B", and
\* one rule accepts every value with the falsy number 0
rejectA(val) == Str("A")
rejectB(val) == Str("B")
accept0(val) == Num(0)

\* check(value), for the rule named by check
check(rule, val) ==
    CASE rule = "nonNullable" -> nonNullable(val)
      [] rule = "mustBeNumber" -> mustBeNumber(val)
      [] rule = "atLeastOne" -> atLeastOne(val)
      [] rule = "rejectA" -> rejectA(val)
      [] rule = "rejectB" -> rejectB(val)
      [] rule = "accept0" -> accept0(val)

(***************************************************************************)
(* Calls.  A call of a method ends with an outcome: the node as the call   *)
(* left it, whether the call threw, the value it returned (undefined for a *)
(* setter, for reset and for a call that threw) and the rules it evaluated,*)
(* in the order of their evaluation.                                       *)
(***************************************************************************)
Returns(node, value, calls) ==
    [node |-> node, threw |-> FALSE, value |-> value, calls |-> calls]
Throws(node, calls) ==
    [node |-> node, threw |-> TRUE, value |-> Undefined, calls |-> calls]

(***************************************************************************)
(* class ScalarModel                                                       *)
(***************************************************************************)
\* constructor(state, rules = [], options = {}): the state object is kept as it
\* is given, and the initial value is the clone of options.initialValue, null
\* when the options carry none
ScalarModel(state, rules, options) ==
    LET given == IF options = Undefined THEN Obj(EmptyProps) ELSE options
    IN  [ type |-> "scalar",
          state |-> state,
          rules |-> IF rules = Undefined THEN <<>> ELSE rules.elems,
          options |-> given,
          initialValue |->
              clone(IF Get(given, "initialValue") = Undefined
                    THEN Null ELSE Get(given, "initialValue")) ]

\* the loop of iterateRules from the i-th rule on, with the rejections pushed
\* and the rules evaluated so far
RECURSIVE iterateRulesFrom(_, _, _, _)
iterateRulesFrom(m, i, result, calls) ==
    IF i > Len(m.rules)
    THEN \* the loop ends and the function ends without a return statement
         [value |-> Undefined, calls |-> calls]
    ELSE LET rejection == check(m.rules[i], m.state.value)
             called == Append(calls, m.rules[i])
         IN  IF Falsy(rejection)
             THEN iterateRulesFrom(m, i + 1, result, called)
             ELSE IF Falsy(Get(m.options, "validateAllRules"))
                  THEN [value |-> Arr(Append(result, rejection)), calls |-> called]
                  ELSE iterateRulesFrom(m, i + 1, Append(result, rejection), called)

\* iterateRules with the test of the mode left out of the loop: every rule is
\* evaluated and every rejection is returned
RECURSIVE iterateRulesCollecting(_, _, _, _)
iterateRulesCollecting(m, i, result, calls) ==
    IF i > Len(m.rules) THEN [value |-> Arr(result), calls |-> calls]
    ELSE LET rejection == check(m.rules[i], m.state.value)
         IN  iterateRulesCollecting(m, i + 1,
                IF Falsy(rejection) THEN result ELSE Append(result, rejection),
                Append(calls, m.rules[i]))
iterateRulesNeverStops(m) == iterateRulesCollecting(m, 1, <<>>, <<>>)

\* private iterateRules(): Array<string>
iterateRules(m) == iterateRulesFrom(m, 1, <<>>, <<>>)

\* public validate(): Array<string>
ScalarModel_validate(m) ==
    LET it == iterateRules(m)
        after == [m EXCEPT !.state.touched = TRUE, !.state.rejections = it.value]
    IN  Returns(after, after.state.rejections, it.calls)

\* public get required(): boolean
ScalarModel_required(m) == Boolean(Get(m.options, "required"))

\* public get value()
ScalarModel_getValue(m) == Returns(m, m.state.value, <<>>)

\* a setter that stores the value and leaves touched as it was
ScalarModel_setValueKeepsTouched(m, value) ==
    Returns([m EXCEPT !.state.value = value], Undefined, <<>>)

\* public set value(value)
ScalarModel_setValue(m, value) ==
    LET stored == [m EXCEPT !.state.value = value]
    IN  Returns(IF ~stored.state.touched
                THEN [stored EXCEPT !.state.touched = TRUE]
                ELSE stored,
                Undefined, <<>>)

\* public get valid(): boolean.  rejections.length is read only when touched
\* is true, and reading it from undefined is a TypeError
ScalarModel_valid(m) ==
    IF ~m.state.touched THEN Returns(m, Bool(TRUE), <<>>)
    ELSE IF GetThrows(m.state.rejections) THEN Throws(m, <<>>)
    ELSE Returns(m, Bool(Boolean(Num(Len(m.state.rejections.elems)))), <<>>)

\* reset() without its last statement: touched stays as the setter left it
ScalarModel_resetStaysTouched(m) ==
    Returns(ScalarModel_setValue(m, clone(m.initialValue)).node, Undefined, <<>>)

\* reset() that also empties the rejections
ScalarModel_resetClearsRejections(m) ==
    LET written == ScalarModel_setValue(m, clone(m.initialValue)).node
    IN  Returns([written EXCEPT !.state.touched = FALSE, !.state.rejections = Arr(<<>>)],
                Undefined, <<>>)

\* public reset(): void
ScalarModel_reset(m) ==
    LET written == ScalarModel_setValue(m, clone(m.initialValue)).node
    IN  Returns([written EXCEPT !.state.touched = FALSE], Undefined, <<>>)

(***************************************************************************)
(* class ComplexModel                                                      *)
(*                                                                         *)
(* A definition object is an object whose own property names are kept in   *)
(* their insertion order (keys), the order reduce, for-in and Object.keys  *)
(* enumerate them in.  The rules of a scalar definition are an array of    *)
(* rule names.                                                             *)
(***************************************************************************)
Def(keys, props) == [k |-> "object", keys |-> keys, o |-> props]

\* lodash omit(def, name): the object without that property, the others in
\* their order
omit(def, name) ==
    Def(SelectSeq(def.keys, LAMBDA key : key # name),
        [key \in DOMAIN def.o \ {name} |-> def.o[key]])

\* required ? rules.concat(nonNullable) : rules : the chain of a leaf is the
\* supplied rules, followed by the required check when the definition is
\* marked required
leafRules(required, rules) ==
    IF Boolean(required) THEN Arr(rules.elems \o <<"nonNullable">>) ELSE rules

\* leaf options that carry the required flag and no mode
leafOptionsWithoutMode(required, options) ==
    Obj([ required |-> Bool(Boolean(required)) ])

\* { required: Boolean(required), validateAllRules: options.validateAllRules }:
\* the options of a leaf, from its definition and the options of the tree
leafOptions(required, options) ==
    Obj([ required |-> Bool(Boolean(required)),
          validateAllRules |-> Get(options, "validateAllRules") ])

\* constructor(fields, options = { validateAllRules: false }): one member per
\* property of the definition, a nested ComplexModel for a definition marked
\* __complex and a ScalarModel for every other
RECURSIVE ComplexModel(_, _)
ComplexModel(fields, options) ==
    LET given == IF options = Undefined
                 THEN Obj([validateAllRules |-> Bool(FALSE)]) ELSE options
        member(field) ==
            LET def == fields.o[field]
                isScalar == Falsy(Get(def, "__complex"))
                required == Get(def, "required")
                initialValue == IF Get(def, "initialValue") = Undefined
                                THEN Null ELSE Get(def, "initialValue")
                rules == IF Get(def, "rules") = Undefined
                         THEN Arr(<<>>) ELSE Get(def, "rules")
            IN  IF ~isScalar
                THEN ComplexModel(omit(def, "__complex"), given)
                ELSE ScalarModel(
                        [ field |-> field, rejections |-> Arr(<<>>),
                          touched |-> FALSE, value |-> clone(initialValue) ],
                        leafRules(required, rules),
                        leafOptions(required, given))
    IN  [ type |-> "complex",
          keys |-> fields.keys,
          fields |-> [field \in DOMAIN fields.o |-> member(field)],
          options |-> given ]

\* the five operations of the ValueModel interface, on a member of either class
RECURSIVE validate(_), getValue(_), setValue(_, _), valid(_), reset(_)

\* reduce(this.fields, (result, field, prop) => ({...result, [prop]: f(field)}), {})
\* for a method f that changes the member it is called on: the members are
\* called in their order, from the i-th on
RECURSIVE validateFrom(_, _, _, _)
validateFrom(m, i, result, calls) ==
    IF i > Len(m.keys) THEN Returns(m, Obj(result), calls)
    ELSE LET prop == m.keys[i]
             r == validate(m.fields[prop])
         IN  validateFrom([m EXCEPT !.fields[prop] = r.node], i + 1,
                          [p \in DOMAIN result \cup {prop} |->
                              IF p = prop THEN r.value ELSE result[p]],
                          calls \o r.calls)

\* validate() that stops after the first member
ComplexModel_validateFirstOnly(m) ==
    LET first == [m EXCEPT !.keys = SubSeq(m.keys, 1, IF Len(m.keys) > 0 THEN 1 ELSE 0)]
        r == validateFrom(first, 1, EmptyProps, <<>>)
    IN  Returns([r.node EXCEPT !.keys = m.keys], r.value, r.calls)

\* public validate(): ValidationCollection<M>
ComplexModel_validate(m) == validateFrom(m, 1, EmptyProps, <<>>)

\* public get value(): M
ComplexModel_getValue(m) ==
    Returns(m, Obj([prop \in DOMAIN m.fields |-> getValue(m.fields[prop]).value]), <<>>)

\* the loop of the value setter from the i-th key on: value[key] is a
\* TypeError when value is null or undefined, and ends the loop
RECURSIVE setValueFrom(_, _, _)
setValueFrom(m, value, i) ==
    IF i > Len(m.keys) THEN Returns(m, Undefined, <<>>)
    ELSE IF GetThrows(value) THEN Throws(m, <<>>)
    ELSE LET key == m.keys[i]
             r == setValue(m.fields[key], Get(value, key))
             after == [m EXCEPT !.fields[key] = r.node]
         IN  IF r.threw THEN Throws(after, <<>>)
             ELSE setValueFrom(after, value, i + 1)

\* public set value(value: M)
ComplexModel_setValue(m, value) == setValueFrom(m, value, 1)

\* lodash find(Object.keys(this.fields), key => !this.fields[key].valid): the
\* first key whose predicate is truthy, undefined when there is none
RECURSIVE find(_, _)
find(m, i) ==
    IF i > Len(m.keys) THEN Returns(m, Undefined, <<>>)
    ELSE LET r == valid(m.fields[m.keys[i]])
         IN  IF r.threw THEN Throws(m, <<>>)
             ELSE IF Falsy(r.value) THEN Returns(m, Str(m.keys[i]), <<>>)
             ELSE find(m, i + 1)

\* public get valid(): boolean
ComplexModel_valid(m) ==
    LET found == find(m, 1)
    IN  IF found.threw THEN found ELSE Returns(m, Bool(Falsy(found.value)), <<>>)

\* for (const field of Object.values(this.fields)) field.reset(), from the
\* i-th member on
RECURSIVE resetFrom(_, _)
resetFrom(m, i) ==
    IF i > Len(m.keys) THEN Returns(m, Undefined, <<>>)
    ELSE resetFrom([m EXCEPT !.fields[m.keys[i]] = reset(m.fields[m.keys[i]]).node], i + 1)

\* reset() that resets the members that are leaves and does not go into the
\* nested composites
ComplexModel_resetLeavesOnly(m) ==
    LET r == resetFrom(m, 1)
    IN  Returns([r.node EXCEPT !.fields =
                    [key \in DOMAIN m.fields |->
                        IF m.fields[key].type = "scalar"
                        THEN r.node.fields[key] ELSE m.fields[key]]],
                Undefined, <<>>)

\* public reset(): void
ComplexModel_reset(m) == resetFrom(m, 1)

validate(m) ==
    IF m.type = "scalar" THEN ScalarModel_validate(m) ELSE ComplexModel_validate(m)
getValue(m) ==
    IF m.type = "scalar" THEN ScalarModel_getValue(m) ELSE ComplexModel_getValue(m)
setValue(m, value) ==
    IF m.type = "scalar" THEN ScalarModel_setValue(m, value)
    ELSE ComplexModel_setValue(m, value)
valid(m) ==
    IF m.type = "scalar" THEN ScalarModel_valid(m) ELSE ComplexModel_valid(m)
reset(m) ==
    IF m.type = "scalar" THEN ScalarModel_reset(m) ELSE ComplexModel_reset(m)

(***************************************************************************)
(* The caller.  It constructs one model, a ScalarModel or a ComplexModel,  *)
(* and then calls the five operations on the model or on any member it     *)
(* reaches through the public fields, named by the path of keys to it.     *)
(***************************************************************************)
\* the member at a path
RECURSIVE At(_, _)
At(m, path) == IF path = <<>> THEN m ELSE At(m.fields[Head(path)], Tail(path))

\* the model with the member at a path replaced
RECURSIVE ReplaceAt(_, _, _)
ReplaceAt(m, path, node) ==
    IF path = <<>> THEN node
    ELSE [m EXCEPT !.fields[Head(path)] = ReplaceAt(m.fields[Head(path)], Tail(path), node)]

\* the paths of all members of a model, the model itself included
RECURSIVE Paths(_)
Paths(m) ==
    IF m.type = "scalar" THEN {<<>>}
    ELSE {<<>>} \cup UNION {{<<key>> \o p : p \in Paths(m.fields[key])} : key \in DOMAIN m.fields}

LeafPaths(m) == {p \in Paths(m) : At(m, p).type = "scalar"}
ComplexPaths(m) == {p \in Paths(m) : At(m, p).type = "complex"}

\* p is a prefix of q: the member at q is the member at p or lies under it
IsPrefix(p, q) == Len(p) <= Len(q) /\ SubSeq(q, 1, Len(p)) = p

\* the value at a path inside a returned record
RECURSIVE ValueAt(_, _)
ValueAt(v, path) == IF path = <<>> THEN v ELSE ValueAt(Get(v, Head(path)), Tail(path))

\* the values a caller writes into a leaf
Values == {Null, Undefined, Str(""), Str("abc")}

\* a key of a record that the caller may leave out
Absent == [k |-> "absent"]

\* the property maps over a sequence of keys, each key with one of the values
\* chosen for it, or left out when Absent is chosen
RECURSIVE PropsOver(_, _)
PropsOver(keys, choices) ==
    IF keys = <<>> THEN {EmptyProps}
    ELSE {IF v = Absent THEN f
          ELSE [p \in DOMAIN f \cup {Head(keys)} |-> IF p = Head(keys) THEN v ELSE f[p]] :
             f \in PropsOver(Tail(keys), choices), v \in choices[Head(keys)]}

\* the values that carry every declared key at every nesting level of a member
RECURSIVE TotalRecords(_)
TotalRecords(m) ==
    IF m.type = "scalar" THEN Values
    ELSE {Obj(f) : f \in PropsOver(m.keys,
                [key \in DOMAIN m.fields |-> TotalRecords(m.fields[key])])}

\* a key no definition of the model declares
ExtraKey == "zz"

\* the records over the declared keys of a member that may leave keys out, at
\* any level
RECURSIVE PartialRecords(_)
PartialRecords(m) ==
    IF m.type = "scalar" THEN Values
    ELSE {Obj(f) : f \in PropsOver(m.keys,
                [key \in DOMAIN m.fields |-> PartialRecords(m.fields[key]) \cup {Absent}])}

\* the values a caller assigns to a member: for a composite, a record that may
\* leave declared keys out and may carry an undeclared key
Records(m) ==
    IF m.type = "scalar" THEN Values
    ELSE PartialRecords(m) \cup
         {Obj(r.o @@ (ExtraKey :> Str("abc"))) : r \in PartialRecords(m)}

(***************************************************************************)
(* The definitions and options the model is constructed from.              *)
(***************************************************************************)
\* rule chains of at most n of the rules a caller supplies
UserRules == {"rejectA", "rejectB", "accept0", "mustBeNumber"}
RECURSIVE Chains(_)
Chains(n) ==
    IF n = 0 THEN {<<>>}
    ELSE Chains(n - 1) \cup {Append(c, r) : c \in Chains(n - 1), r \in UserRules}

\* the options of a directly constructed leaf
ScalarOptions ==
    { Undefined,
      Obj([required |-> Bool(TRUE)]),
      Obj([validateAllRules |-> Bool(TRUE)]),
      Obj([initialValue |-> Str("abc")]),
      Obj([initialValue |-> Str("abc"), validateAllRules |-> Bool(TRUE)]) }

\* ScalarModel.from(state, rules, options)
ScalarInputs ==
    { [ class |-> "ScalarModel",
        state |-> [field |-> "x", rejections |-> Arr(<<>>), touched |-> FALSE, value |-> Null],
        rules |-> Arr(c),
        options |-> o ] : c \in Chains(MaxRules), o \in ScalarOptions }

\* scalar field definitions
PlainDef == Def(<<>>, EmptyProps)
AgeDef == Def(<<"required", "rules">>,
              [required |-> Bool(TRUE), rules |-> Arr(<<"mustBeNumber">>)])
InitialDef == Def(<<"initialValue", "rules">>,
                  [initialValue |-> Str("abc"), rules |-> Arr(<<"rejectA", "rejectB">>)])

\* a group definition: the nested definition marked with the discriminator
Group(def) ==
    Def(<<"__complex">> \o def.keys,
        [key \in {"__complex"} \cup DOMAIN def.o |->
            IF key = "__complex" THEN Bool(TRUE) ELSE def.o[key]])

\* the definition { age: AgeDef } nested in n groups named g
RECURSIVE Nested(_)
Nested(n) ==
    IF n = 0 THEN Def(<<"age">>, [age |-> AgeDef])
    ELSE Def(<<"g">>, [g |-> Group(Nested(n - 1))])

\* the definitions handed to the tree builder: flat ones, one of them with the
\* empty string as a property name, and a leaf beside groups nested up to MaxDepth
FieldsDefs ==
    { Def(<<>>, EmptyProps),
      Def(<<"age">>, [age |-> AgeDef]),
      Def(<<"a", "age">>, [a |-> InitialDef, age |-> AgeDef]),
      Def(<<"", "b">>, [b |-> PlainDef] @@ ("" :> PlainDef)) }
    \cup { Def(<<"a", "g">>, [a |-> PlainDef, g |-> Group(Nested(d - 2))]) : d \in 2..MaxDepth }

ComplexOptions ==
    {Undefined, Obj([validateAllRules |-> Bool(FALSE)]), Obj([validateAllRules |-> Bool(TRUE)])}

\* ComplexModel.from(fields, options)
ComplexInputs ==
    { [class |-> "ComplexModel", fields |-> f, options |-> o] :
        f \in FieldsDefs, o \in ComplexOptions }

Inputs == ScalarInputs \cup ComplexInputs

\* the model constructed from an input
New(in) ==
    IF in.class = "ScalarModel" THEN ScalarModel(in.state, in.rules, in.options)
    ELSE ComplexModel(in.fields, in.options)

(***************************************************************************)
(* The state machine of the calls.                                         *)
(***************************************************************************)
\* the marker of a leaf whose validate() has not been called
NotCalled == [k |-> "notcalled"]

\* the record of a call: the operation, the path of the member it was called
\* on, the value assigned (undefined for a call that assigns none), and its
\* outcome
Called(op, path, arg, r) ==
    [ op |-> op, path |-> path, arg |-> arg,
      threw |-> r.threw, value |-> r.value, calls |-> r.calls ]

Init ==
    /\ input \in Inputs
    /\ model = New(input)
    /\ ret = Called("new", <<>>, Undefined, Returns(New(input), Undefined, <<>>))
    /\ returned = [p \in LeafPaths(New(input)) |-> NotCalled]
    /\ heap = <<>>

\* member.value = v, for a member and any value a caller assigns to it
SetValueWith(path, v) ==
    LET r == setValue(At(model, path), v)
    IN  /\ model' = ReplaceAt(model, path, r.node)
        /\ ret' = Called("setValue", path, v, r)
        /\ UNCHANGED <<input, returned, heap>>

SetValue == \E path \in Paths(model) : \E v \in Records(At(model, path)) : SetValueWith(path, v)

\* member.value = v, for a value that carries every declared key
SetValueTotal ==
    \E path \in Paths(model) : \E v \in TotalRecords(At(model, path)) : SetValueWith(path, v)

\* member.validate(): every leaf under the member has its result returned, in
\* the record the call returns
Validate ==
    \E path \in Paths(model) :
        LET r == validate(At(model, path))
        IN  /\ model' = ReplaceAt(model, path, r.node)
            /\ ret' = Called("validate", path, Undefined, r)
            /\ returned' = [p \in DOMAIN returned |->
                    IF IsPrefix(path, p)
                    THEN ValueAt(r.value, SubSeq(p, Len(path) + 1, Len(p)))
                    ELSE returned[p]]
            /\ UNCHANGED <<input, heap>>

\* member.reset()
Reset ==
    \E path \in Paths(model) :
        LET r == reset(At(model, path))
        IN  /\ model' = ReplaceAt(model, path, r.node)
            /\ ret' = Called("reset", path, Undefined, r)
            /\ UNCHANGED <<input, returned, heap>>

\* member.value
GetValue ==
    \E path \in Paths(model) :
        LET r == getValue(At(model, path))
        IN  /\ model' = ReplaceAt(model, path, r.node)
            /\ ret' = Called("getValue", path, Undefined, r)
            /\ UNCHANGED <<input, returned, heap>>

\* member.valid
GetValid ==
    \E path \in Paths(model) :
        LET r == valid(At(model, path))
        IN  /\ model' = ReplaceAt(model, path, r.node)
            /\ ret' = Called("valid", path, Undefined, r)
            /\ UNCHANGED <<input, returned, heap>>

Next == SetValue \/ Validate \/ Reset \/ GetValue \/ GetValid

Spec == Init /\ [][Next]_vars

\* the caller that assigns only records carrying every declared key
NextTotal == SetValueTotal \/ Validate \/ Reset \/ GetValue \/ GetValid

SpecTotal == Init /\ [][NextTotal]_vars

(***************************************************************************)
(* Arrays held by reference.  An array-valued initial value is an object   *)
(* the caller, the node's initialValue and the node's live value may       *)
(* share.  Here an array is a cell of the heap, named by its address, and  *)
(* the elements of a cell are primitives or references to other cells.     *)
(***************************************************************************)
Ref(a) == [k |-> "ref", a |-> a]

\* an array value laid out in the heap, its nested arrays first: the heap
\* after it and the reference (a primitive stays as it is)
RECURSIVE Store(_, _), StoreElems(_, _, _, _)
Store(h, v) ==
    IF v.k # "array" THEN [heap |-> h, value |-> v]
    ELSE LET s == StoreElems(h, v.elems, 1, <<>>)
         IN  [heap |-> Append(s.heap, s.elems), value |-> Ref(Len(s.heap) + 1)]
StoreElems(h, elems, i, done) ==
    IF i > Len(elems) THEN [heap |-> h, elems |-> done]
    ELSE LET s == Store(h, elems[i])
         IN  StoreElems(s.heap, elems, i + 1, Append(done, s.value))

\* the value a reference stands for, with the elements of every nested array
RECURSIVE Deep(_, _)
Deep(h, v) ==
    IF v.k = "ref" THEN Arr([i \in 1..Len(h[v.a]) |-> Deep(h, h[v.a][i])])
    ELSE v

\* lodash clone of a value that may be a reference: a new array that holds
\* the elements of the given one, nested arrays by the same references
cloneAt(h, v) ==
    IF v.k = "ref" THEN [heap |-> Append(h, h[v.a]), value |-> Ref(Len(h) + 1)]
    ELSE [heap |-> h, value |-> clone(v)]

\* the constructor of ScalarModel, with the array it clones
ScalarModelAt(h, state, rules, options) ==
    LET given == IF options = Undefined THEN Obj(EmptyProps) ELSE options
        c == cloneAt(h, IF Get(given, "initialValue") = Undefined
                        THEN Null ELSE Get(given, "initialValue"))
    IN  [ heap |-> c.heap,
          node |-> [ScalarModel(state, rules, options) EXCEPT !.initialValue = c.value] ]

\* reset() of ScalarModel, with the array it clones
ScalarModel_resetAt(h, m) ==
    LET c == cloneAt(h, m.initialValue)
        written == ScalarModel_setValue(m, c.value).node
    IN  [ heap |-> c.heap,
          node |-> [written EXCEPT !.state.touched = FALSE] ]

\* the initial values a caller supplies: a string, a flat array, and arrays
\* that hold arrays
InitialValues ==
    { Str("abc"),
      Arr(<<Num(1)>>),
      Arr(<<Arr(<<Num(1)>>)>>),
      Arr(<<Num(1), Arr(<<Num(1)>>)>>) }

\* ScalarModel.from(state, [], {initialValue})
HeapInputs ==
    { [ class |-> "ScalarModel",
        state |-> [field |-> "x", rejections |-> Arr(<<>>), touched |-> FALSE, value |-> Null],
        rules |-> Arr(<<>>),
        options |-> Obj([initialValue |-> v]) ] : v \in InitialValues }

\* the caller builds the initial value and constructs the leaf with it
InitHeap ==
    /\ input \in HeapInputs
    /\ LET s == Store(<<>>, Get(input.options, "initialValue"))
           n == ScalarModelAt(s.heap, input.state, input.rules,
                              Obj([initialValue |-> s.value]))
       IN  /\ heap = n.heap
           /\ model = n.node
    /\ ret = Called("new", <<>>, Undefined, Returns(Null, Undefined, <<>>))
    /\ returned = [p \in {<<>>} |-> NotCalled]

\* model.reset()
ResetHeap ==
    /\ Len(heap) < MaxCells
    /\ LET r == ScalarModel_resetAt(heap, model)
       IN  /\ heap' = r.heap
           /\ model' = r.node
           /\ ret' = Called("reset", <<>>, Undefined, Returns(Null, Undefined, <<>>))
    /\ UNCHANGED <<input, returned>>

\* model.value.push(2): the getter returns the array the node holds
Push ==
    /\ ScalarModel_getValue(model).value.k = "ref"
    /\ LET a == ScalarModel_getValue(model).value.a
       IN  /\ Len(heap[a]) < MaxLen
           /\ heap' = [heap EXCEPT ![a] = Append(@, Num(2))]
           /\ ret' = Called("push", <<>>, Num(2), Returns(Null, Num(Len(heap[a]) + 1), <<>>))
    /\ UNCHANGED <<model, input, returned>>

\* model.value[i].push(2), for an element that is an array
PushNested ==
    /\ ScalarModel_getValue(model).value.k = "ref"
    /\ LET a == ScalarModel_getValue(model).value.a
       IN  \E i \in 1..Len(heap[a]) :
             /\ heap[a][i].k = "ref"
             /\ Len(heap[heap[a][i].a]) < MaxLen
             /\ heap' = [heap EXCEPT ![heap[a][i].a] = Append(@, Num(2))]
             /\ ret' = Called("pushNested", <<>>, Num(2),
                              Returns(Null, Num(Len(heap[heap[a][i].a]) + 1), <<>>))
    /\ UNCHANGED <<model, input, returned>>

NextHeap == ResetHeap \/ Push \/ PushNested

SpecHeap == InitHeap /\ [][NextHeap]_vars

(***************************************************************************)
(* State objects held by reference.  The tree builder creates the state of *)
(* every leaf as an object of its own; the members collection is assigned  *)
(* once, in the constructor.  Here the state of a leaf is a cell of the    *)
(* heap, the leaf holds its address, and a call writes the cells of the    *)
(* leaves it reaches.                                                      *)
(***************************************************************************)
\* the state objects of a tree, one new cell for the state literal of every
\* leaf, in the order the constructor visits the definition
RECURSIVE Allocate(_, _), AllocateFrom(_, _, _)
\* a constructor that hands one state object to every leaf
AllocateShared(h, m) ==
    IF m.type = "scalar"
    THEN [ heap |-> IF h = <<>> THEN <<m.state>> ELSE h,
           node |-> [m EXCEPT !.state = Ref(1)] ]
    ELSE AllocateFrom(h, m, 1)

Allocate(h, m) ==
    IF m.type = "scalar"
    THEN [ heap |-> Append(h, m.state),
           node |-> [m EXCEPT !.state = Ref(Len(h) + 1)] ]
    ELSE AllocateFrom(h, m, 1)
AllocateFrom(h, m, i) ==
    IF i > Len(m.keys) THEN [heap |-> h, node |-> m]
    ELSE LET a == Allocate(h, m.fields[m.keys[i]])
         IN  AllocateFrom(a.heap, [m EXCEPT !.fields[m.keys[i]] = a.node], i + 1)

\* a member with the state of every leaf read from the heap
RECURSIVE Load(_, _)
Load(h, m) ==
    IF m.type = "scalar" THEN [m EXCEPT !.state = h[m.state.a]]
    ELSE [m EXCEPT !.fields = [key \in DOMAIN m.fields |-> Load(h, m.fields[key])]]

\* the heap after a call on member t has left it as v: the state object of
\* every leaf of t holds the state the call left
RECURSIVE StoreBack(_, _, _), StoreBackFrom(_, _, _, _)
StoreBack(h, t, v) ==
    IF t.type = "scalar" THEN [h EXCEPT ![t.state.a] = v.state]
    ELSE StoreBackFrom(h, t, v, 1)
StoreBackFrom(h, t, v, i) ==
    IF i > Len(t.keys) THEN h
    ELSE StoreBackFrom(StoreBack(h, t.fields[t.keys[i]], v.fields[t.keys[i]]), t, v, i + 1)

\* the member a call has left as v, with the state of every leaf by the
\* reference member t holds
RECURSIVE Keep(_, _)
Keep(t, v) ==
    IF v.type = "scalar" THEN [v EXCEPT !.state = t.state]
    ELSE [v EXCEPT !.fields = [key \in DOMAIN v.fields |-> Keep(t.fields[key], v.fields[key])]]

\* ComplexModel.from(fields, options)
InitObjects ==
    /\ input \in ComplexInputs
    /\ LET a == Allocate(<<>>, New(input))
       IN  /\ heap = a.heap
           /\ model = a.node
    /\ ret = Called("new", <<>>, Undefined, Returns(Null, Undefined, <<>>))
    /\ returned = [p \in LeafPaths(New(input)) |-> NotCalled]

\* a call on the member at a path that ended as r
CallAt(op, path, arg, r) ==
    /\ heap' = StoreBack(heap, At(model, path), r.node)
    /\ model' = ReplaceAt(model, path, Keep(At(model, path), r.node))
    /\ ret' = Called(op, path, arg, r)
    /\ UNCHANGED <<input, returned>>

\* member.value = v
SetValueObjects ==
    \E path \in Paths(model) : \E v \in Records(At(model, path)) :
        CallAt("setValue", path, v, setValue(Load(heap, At(model, path)), v))

\* member.validate()
ValidateObjects ==
    \E path \in Paths(model) :
        CallAt("validate", path, Undefined, validate(Load(heap, At(model, path))))

\* member.reset()
ResetObjects ==
    \E path \in Paths(model) :
        CallAt("reset", path, Undefined, reset(Load(heap, At(model, path))))

NextObjects == SetValueObjects \/ ValidateObjects \/ ResetObjects

SpecObjects == InitObjects /\ [][NextObjects]_vars

(***************************************************************************)
(* Records held by reference.  The value getter of a composite builds the  *)
(* record it returns: reduce starts from a new {} and every step makes a   *)
(* new object with the properties so far and the value of the next member, *)
(* which for a nested composite is the record its own getter builds.  Here *)
(* a record is a cell of the heap that holds its properties.               *)
(***************************************************************************)
\* the value a reference to a record stands for, nested records included
RECURSIVE Contents(_, _)
Contents(h, v) ==
    IF v.k = "ref" THEN Obj([p \in DOMAIN h[v.a] |-> Contents(h, h[v.a][p])])
    ELSE v

RECURSIVE getValueAt(_, _), getValueAtFrom(_, _, _, _)
\* a getter that hands out again a record it built before when the values
\* are the same
getValueAtMemo(h, m) ==
    IF m.type = "scalar" THEN [heap |-> h, value |-> ScalarModel_getValue(m).value]
    ELSE IF \E a \in DOMAIN h : Contents(h, Ref(a)) = getValue(m).value
    THEN [heap |-> h,
          value |-> Ref(CHOOSE a \in DOMAIN h : Contents(h, Ref(a)) = getValue(m).value)]
    ELSE getValueAtFrom(Append(h, EmptyProps), m, 1, Ref(Len(h) + 1))

\* get value of a member: the heap after the call and the value returned, the
\* reference to a new record for a composite
getValueAt(h, m) ==
    IF m.type = "scalar" THEN [heap |-> h, value |-> ScalarModel_getValue(m).value]
    ELSE getValueAtFrom(Append(h, EmptyProps), m, 1, Ref(Len(h) + 1))
\* the reduce of the getter from the i-th member on, result being the record
\* built so far: ({ ...result, [prop]: field.value })
getValueAtFrom(h, m, i, result) ==
    IF i > Len(m.keys) THEN [heap |-> h, value |-> result]
    ELSE LET prop == m.keys[i]
             f == getValueAt(h, m.fields[prop])
             spread == [p \in DOMAIN f.heap[result.a] \cup {prop} |->
                           IF p = prop THEN f.value ELSE f.heap[result.a][p]]
         IN  getValueAtFrom(Append(f.heap, spread), m, i + 1, Ref(Len(f.heap) + 1))

\* ComplexModel.from(fields, options)
InitRecords == Init /\ input \in ComplexInputs

\* the records with every declared key at every nesting level of a member,
\* their leaves holding the given values
RECURSIVE TotalRecordsOver(_, _)
TotalRecordsOver(m, values) ==
    IF m.type = "scalar" THEN values
    ELSE {Obj(f) : f \in PropsOver(m.keys,
                [key \in DOMAIN m.fields |-> TotalRecordsOver(m.fields[key], values)])}

\* member.value = v, for a complete record of "abc" and undefined
SetValueRecords ==
    \E path \in Paths(model) :
        \E v \in TotalRecordsOver(At(model, path), {Str("abc"), Undefined}) :
            SetValueWith(path, v)

\* member.value, read by a caller that keeps the records it is handed
GetValueRecords ==
    /\ Len(heap) < MaxRecords
    /\ \E path \in Paths(model) :
        LET r == getValueAt(heap, At(model, path))
        IN  /\ heap' = r.heap
            /\ ret' = Called("getValue", path, Undefined, Returns(Null, r.value, <<>>))
    /\ UNCHANGED <<model, input, returned>>

NextRecords == SetValueRecords \/ Reset \/ GetValueRecords

SpecRecords == InitRecords /\ [][NextRecords]_vars

(***************************************************************************)
(* The properties.                                                         *)
(***************************************************************************)
\* the leaf at a path of the model
Leaf(p) == At(model, p)

\* the leaves the last call reached: the member it was called on, or the
\* leaves under it
Reached(p) == IsPrefix(ret.path, p)

\* the mode of a leaf
ShortCircuit(m) == Falsy(Get(m.options, "validateAllRules"))

\* the rules of a leaf's chain that reject its current value, by their index
Rejecting(m) == {i \in 1..Len(m.rules) : ~Falsy(check(m.rules[i], m.state.value))}

\* the messages of the rejecting rules of the chain from the i-th rule on
RECURSIVE RejectionsFrom(_, _)
RejectionsFrom(m, i) ==
    IF i > Len(m.rules) THEN <<>>
    ELSE (IF i \in Rejecting(m) THEN <<check(m.rules[i], m.state.value)>> ELSE <<>>)
         \o RejectionsFrom(m, i + 1)

\* C1: after validate() has reached a leaf in short-circuit mode none of whose
\* rules rejects the current value (an empty chain included), the call has
\* returned the empty list for that leaf and the leaf's rejections is the
\* empty list.
C1_AcceptedReturnsEmptyList ==
    ret.op = "validate" =>
        \A p \in LeafPaths(model) :
            (Reached(p) /\ ShortCircuit(Leaf(p)) /\ Rejecting(Leaf(p)) = {}) =>
                /\ returned[p] = Arr(<<>>)
                /\ Leaf(p).state.rejections = Arr(<<>>)

\* C2: after validate() has reached a leaf in exhaustive mode, the call has
\* returned for that leaf the list of the messages of every rule that rejects
\* the current value, in rule order.
C2_ExhaustiveReturnsEveryRejection ==
    ret.op = "validate" =>
        \A p \in LeafPaths(model) :
            (Reached(p) /\ ~ShortCircuit(Leaf(p))) =>
                returned[p] = Arr(RejectionsFrom(Leaf(p), 1))

\* the first rule of a leaf's chain that rejects its current value
FirstRejecting(m) == CHOOSE i \in Rejecting(m) : \A j \in Rejecting(m) : i <= j

\* C3: after validate() has reached a leaf in short-circuit mode some rule of
\* which rejects the current value, the call has returned for that leaf the
\* one-element list of the message of the first rejecting rule of the chain,
\* and a call on the leaf itself has evaluated the rules up to that rule and
\* none after it.
C3_ShortCircuitReturnsFirstRejection ==
    ret.op = "validate" =>
        \A p \in LeafPaths(model) :
            (Reached(p) /\ ShortCircuit(Leaf(p)) /\ Rejecting(Leaf(p)) # {}) =>
                LET m == Leaf(p)
                    first == FirstRejecting(m)
                IN  /\ returned[p] = Arr(<<check(m.rules[first], m.state.value)>>)
                    /\ ret.path = p => ret.calls = SubSeq(m.rules, 1, first)

\* C3, the case of the two rules r1 and r2: validate() has returned ["A"] and
\* has evaluated r1 alone; and a case where the first rejecting rule is not
\* the first rule of the chain
C3_Witness ==
    /\ ret.op = "validate" /\ ret.path = <<>> /\ model.type = "scalar"
    /\ ShortCircuit(model)
    /\ \/ /\ model.rules = <<"rejectA", "rejectB">>
          /\ ret.value = Arr(<<Str("A")>>)
          /\ ret.calls = <<"rejectA">>
       \/ /\ model.rules = <<"accept0", "rejectB">>
          /\ ret.value = Arr(<<Str("B")>>)
          /\ ret.calls = <<"accept0", "rejectB">>

\* C4: no call of the caller that assigns only records carrying every declared
\* key throws.
C4_NoCallThrows == ~ret.threw

\* the scalar definition at a path of a definition object
RECURSIVE DefAt(_, _)
DefAt(def, path) ==
    IF Len(path) = 1 THEN def.o[Head(path)] ELSE DefAt(def.o[Head(path)], Tail(path))

\* the initial value the caller supplied for the leaf at a path: the one of the
\* options of a directly constructed leaf, the one of the leaf's scalar
\* definition in a tree, null when none was supplied
SuppliedInitialValue(p) ==
    LET given == IF input.class = "ScalarModel"
                 THEN (IF input.options = Undefined THEN Undefined
                       ELSE Get(input.options, "initialValue"))
                 ELSE Get(DefAt(input.fields, p), "initialValue")
    IN  IF given = Undefined THEN Null ELSE given

\* C5: after reset() has reached a leaf, the leaf's value is equal to the
\* initial value supplied for it (null when none was supplied).
C5_ResetRestoresSuppliedInitialValue ==
    ret.op = "reset" =>
        \A p \in LeafPaths(model) :
            Reached(p) => Leaf(p).state.value = SuppliedInitialValue(p)

\* the rejections of a leaf are a list with at least one element
HasRejections(m) == m.state.rejections.k = "array" /\ Len(m.state.rejections.elems) > 0

\* C6: get valid of a leaf returns true when the leaf is not touched or its
\* rejection list is non-empty, and false when it is touched and its
\* rejections are empty.
C6_LeafValidPolicy ==
    (ret.op = "valid" /\ Leaf(ret.path).type = "scalar") =>
        /\ ~ret.threw
        /\ ret.value = Bool(~Leaf(ret.path).state.touched \/ HasRejections(Leaf(ret.path)))

\* C7 as stated: a leaf whose validate() has not been called is not touched
\* and has no rejections.
C7_UntouchedBeforeValidate ==
    \A p \in LeafPaths(model) :
        returned[p] = NotCalled =>
            /\ ~Leaf(p).state.touched
            /\ Leaf(p).state.rejections = Arr(<<>>)

\* C7 as amended: a leaf whose validate() has not been called has no
\* rejections; it is not touched at construction and after a reset() that
\* reached it, and it is touched after a value write that reached it.
C7_NoRejectionsBeforeValidate ==
    \A p \in LeafPaths(model) :
        returned[p] = NotCalled =>
            /\ Leaf(p).state.rejections = Arr(<<>>)
            /\ (ret.op = "new" \/ (ret.op = "reset" /\ Reached(p))) => ~Leaf(p).state.touched
            /\ (ret.op = "setValue" /\ Reached(p) /\ ~ret.threw) => Leaf(p).state.touched

\* C7: a leaf of a tree, its validate() never called, that a value write
\* through the root has just reached: it holds the written value, it is
\* touched and it has no rejections
C7_Witness ==
    /\ ret.op = "setValue" /\ ret.path = <<>> /\ ~ret.threw /\ model.type = "complex"
    /\ \E p \in LeafPaths(model) :
        /\ returned[p] = NotCalled
        /\ Leaf(p).state.value = Str("abc")
        /\ Leaf(p).state.touched
        /\ Leaf(p).state.rejections = Arr(<<>>)

\* C8: the rejections of a leaf are what the last validate() that reached the
\* leaf returned for it, and the empty list when none has reached it; value
\* writes and resets, which return nothing for the leaf, leave them as they are.
C8_RejectionsAreLastValidateResult ==
    \A p \in LeafPaths(model) :
        Leaf(p).state.rejections =
            IF returned[p] = NotCalled THEN Arr(<<>>) ELSE returned[p]

\* C8: a leaf that holds a rejection of an earlier validate() after a value
\* write or a reset has reached it
C8_Witness ==
    /\ ret.op \in {"reset", "setValue"}
    /\ \E p \in LeafPaths(model) :
        /\ Reached(p)
        /\ returned[p] = Arr(<<Str("A")>>)
        /\ Leaf(p).state.rejections = Arr(<<Str("A")>>)

\* a record without the keys a composite does not declare
Declared(m, v) == Obj([key \in DOMAIN v.o \cap DOMAIN m.fields |-> v.o[key]])

\* every leaf of a member is touched
RECURSIVE AllTouched(_)
AllTouched(m) ==
    IF m.type = "scalar" THEN m.state.touched
    ELSE \A key \in DOMAIN m.fields : AllTouched(m.fields[key])

\* C9: a value write of a record v to a composite does what the write of v
\* without its undeclared keys does, and every child whose property name is not
\* a key of v has after the call the value it had before it, and is touched.
C9_AbsentKeysKeepValue ==
    [][\A path \in ComplexPaths(model) : \A v \in Records(At(model, path)) :
          SetValueWith(path, v) =>
              /\ model' = ReplaceAt(model, path,
                              setValue(At(model, path), Declared(At(model, path), v)).node)
              /\ \A key \in DOMAIN At(model, path).fields \ DOMAIN v.o :
                    /\ getValue(At(model', path).fields[key]).value
                          = getValue(At(model, path).fields[key]).value
                    /\ AllTouched(At(model', path).fields[key])
      ]_vars

\* C10: when get valid of a composite returns, it returns true if and only if
\* get valid of every child returns true.
C10_CompositeValidIffEveryChildValid ==
    (ret.op = "valid" /\ Leaf(ret.path).type = "complex" /\ ~ret.threw) =>
        ret.value = Bool(\A key \in DOMAIN Leaf(ret.path).fields :
                            valid(Leaf(ret.path).fields[key]).value = Bool(TRUE))

\* the rules the caller supplied for the leaf at a path: the rules argument of
\* a directly constructed leaf, the rules of the leaf's scalar definition in a
\* tree, none when the definition carries none
SuppliedRules(p) ==
    IF input.class = "ScalarModel" THEN input.rules.elems
    ELSE LET rules == Get(DefAt(input.fields, p), "rules")
         IN  IF rules = Undefined THEN <<>> ELSE rules.elems

\* the rules of a sequence that reject a value, by their index
RejectingOf(rules, val) == {i \in 1..Len(rules) : ~Falsy(check(rules[i], val))}

\* the values the required check rejects
Blank == {Null, Undefined, Str("")}

\* what C11 says of the leaf at a path: its chain is the supplied rules followed
\* by the required check, and a short-circuit validate() of a blank value has
\* returned the required message alone when no supplied rule rejects the
\* value, and the message of the first rejecting supplied rule alone otherwise
RequiredCheckIsLast(p) ==
    LET m == Leaf(p)
        supplied == SuppliedRules(p)
        rejecting == RejectingOf(supplied, m.state.value)
    IN  /\ m.rules = supplied \o <<"nonNullable">>
        /\ (ret.op = "validate" /\ Reached(p) /\ ShortCircuit(m) /\ m.state.value \in Blank) =>
              returned[p] =
                  IF rejecting = {} THEN Arr(<<Str(NonNullableMessage)>>)
                  ELSE Arr(<<check(supplied[CHOOSE i \in rejecting : \A j \in rejecting : i <= j],
                                   m.state.value)>>)

\* C11: every leaf marked required has the required check as the
\* last rule of its chain, after the supplied rules, and validates a blank
\* value accordingly.
C11_RequiredCheckIsLastRule ==
    \A p \in LeafPaths(model) :
        ScalarModel_required(Leaf(p)) => RequiredCheckIsLast(p)

\* the tree of the example: { age: { required: true, rules: [mustBeNumber] } }
\* with validateAllRules false, given or by default
AgeExample ==
    /\ input.class = "ComplexModel"
    /\ input.fields = Def(<<"age">>, [age |-> AgeDef])
    /\ input.options \in {Undefined, Obj([validateAllRules |-> Bool(FALSE)])}

\* C12: in the tree of the example, a validate() of age whose value is "abc"
\* returns the must-be-number message alone, and a validate() of age whose
\* value is null returns the required message alone, whatever calls came
\* before (the write of "abc" and its validation included).
C12_AgeExampleRejections ==
    (AgeExample /\ ret.op = "validate" /\ ret.path = <<"age">>) =>
        /\ Leaf(<<"age">>).state.value = Str("abc") =>
              ret.value = Arr(<<Str(MustBeNumberMessage)>>)
        /\ Leaf(<<"age">>).state.value = Null =>
              ret.value = Arr(<<Str(NonNullableMessage)>>)

\* C12: age holds null and its validate() has returned the required message
C12_Witness ==
    /\ AgeExample /\ ret.op = "validate" /\ ret.path = <<"age">>
    /\ Leaf(<<"age">>).state.value = Null
    /\ Leaf(<<"age">>).state.touched
    /\ ret.value = Arr(<<Str(NonNullableMessage)>>)
    /\ ret.calls = <<"mustBeNumber", "nonNullable">>

\* the path of a member under the member the last call was made on, from
\* that member
Below(p) == SubSeq(p, Len(ret.path) + 1, Len(p))

\* the rules one validate() of a leaf evaluates: in short-circuit mode the
\* rules up to the first that rejects the value, every rule otherwise
EvaluatedOnce(m) ==
    IF ShortCircuit(m) /\ Rejecting(m) # {}
    THEN SubSeq(m.rules, 1, FirstRejecting(m)) ELSE m.rules

\* the rules evaluated when every leaf of a member is validated once, the
\* members of a composite in the order of its keys, from the i-th key on
RECURSIVE EvaluatedOnceFrom(_, _)
EvaluatedOnceFrom(m, i) ==
    IF m.type = "scalar" THEN EvaluatedOnce(m)
    ELSE IF i > Len(m.keys) THEN <<>>
    ELSE EvaluatedOnceFrom(m.fields[m.keys[i]], 1) \o EvaluatedOnceFrom(m, i + 1)

\* C13: after validate() of a composite, the value returned is, at the
\* composite and at every composite under it, a mapping whose keys are exactly
\* the property names; it maps every leaf under the composite to the result
\* of that leaf's validate(), the rejections the leaf has stored; the rules
\* evaluated are those of one validate() of every leaf, in order; and every
\* leaf under the composite is touched.
C13_CompositeValidateReachesEveryLeaf ==
    (ret.op = "validate" /\ Leaf(ret.path).type = "complex") =>
        /\ ~ret.threw
        /\ \A q \in ComplexPaths(model) :
              Reached(q) =>
                  /\ ValueAt(ret.value, Below(q)).k = "object"
                  /\ DOMAIN ValueAt(ret.value, Below(q)).o = DOMAIN Leaf(q).fields
        /\ \A p \in LeafPaths(model) :
              Reached(p) =>
                  /\ ValueAt(ret.value, Below(p)) = Leaf(p).state.rejections
                  /\ Leaf(p).state.touched
        /\ ret.calls = EvaluatedOnceFrom(Leaf(ret.path), 1)

\* C13: validate() of the root of a tree with a nested group has returned a
\* nested mapping that holds a rejection list for a leaf of the group
C13_Witness ==
    /\ ret.op = "validate" /\ ret.path = <<>> /\ model.type = "complex"
    /\ \E p \in LeafPaths(model) :
        /\ Len(p) >= 2
        /\ Leaf(p).state.touched
        /\ ValueAt(ret.value, p) = Arr(<<Str(NonNullableMessage)>>)
    /\ \E p \in LeafPaths(model) : Len(p) = 1

\* C14: after reset() of a composite, the call has not thrown and every leaf
\* under the composite, at any depth, is not touched.
C14_CompositeResetReachesEveryLeaf ==
    (ret.op = "reset" /\ Leaf(ret.path).type = "complex") =>
        /\ ~ret.threw
        /\ \A p \in LeafPaths(model) : Reached(p) => ~Leaf(p).state.touched

\* C14: reset() of the root of a tree has reached a leaf of a nested group that
\* had been validated: the leaf keeps the rejection of that validation, and it
\* is not touched
C14_Witness ==
    /\ ret.op = "reset" /\ ret.path = <<>> /\ model.type = "complex"
    /\ \E p \in LeafPaths(model) :
        /\ Len(p) >= 2
        /\ returned[p] = Arr(<<Str(MustBeNumberMessage)>>)
        /\ ~Leaf(p).state.touched

\* C15: a value write to a leaf stores the assigned value as it is, leaves the
\* leaf touched whether or not it was, evaluates no rule, does not throw, and
\* changes nothing else of the leaf: the rejections are those of before.
C15_LeafSetterStoresVerbatim ==
    [][ (ret'.op = "setValue" /\ At(model, ret'.path).type = "scalar") =>
            LET before == At(model, ret'.path)
                after  == At(model', ret'.path)
            IN  /\ ~ret'.threw
                /\ ret'.calls = <<>>
                /\ after.state.value = ret'.arg
                /\ after.state.touched
                /\ after.state.rejections = before.state.rejections
                /\ after = [before EXCEPT !.state.value = ret'.arg,
                                          !.state.touched = TRUE] ]_vars

\* C15: "abc" has been written to a required leaf whose last validate()
\* rejected null: the leaf holds "abc" and still carries that rejection
C15_Witness ==
    /\ ret.op = "setValue" /\ Leaf(ret.path).type = "scalar"
    /\ ret.arg = Str("abc")
    /\ Leaf(ret.path).state.value = Str("abc")
    /\ Leaf(ret.path).state.touched
    /\ Leaf(ret.path).state.rejections = Arr(<<Str(NonNullableMessage)>>)
    /\ returned[ret.path] = Arr(<<Str(NonNullableMessage)>>)

\* a value that carries exactly the declared keys of a member at every
\* nesting level
RECURSIVE IsTotal(_, _)
IsTotal(m, v) ==
    IF m.type = "scalar" THEN TRUE
    ELSE /\ v.k = "object"
         /\ DOMAIN v.o = DOMAIN m.fields
         /\ \A key \in DOMAIN m.fields : IsTotal(m.fields[key], v.o[key])

\* a record whose keys are exactly the property names of a composite, at
\* every nesting level
RECURSIVE HasPropertyNames(_, _)
HasPropertyNames(m, v) ==
    IF m.type = "scalar" THEN TRUE
    ELSE /\ v.k = "object"
         /\ DOMAIN v.o = {m.keys[i] : i \in 1..Len(m.keys)}
         /\ \A key \in DOMAIN v.o : HasPropertyNames(m.fields[key], v.o[key])

\* the records a value is made of: the addresses it reaches in the heap
RECURSIVE RecordsOf(_, _)
RecordsOf(h, v) ==
    IF v.k = "ref"
    THEN {v.a} \cup UNION {RecordsOf(h, h[v.a][p]) : p \in DOMAIN h[v.a]}
    ELSE {}

\* C16, in every state: after a composite has been assigned a record that
\* carries exactly the declared keys at every nesting level, the assignment
\* has not thrown and the value of the composite equals the record; and the
\* value of every composite is a record with exactly the property names as
\* keys.
C16_ValueIsTheRecordAssigned ==
    /\ (ret.op = "setValue" /\ Leaf(ret.path).type = "complex"
            /\ IsTotal(Leaf(ret.path), ret.arg)) =>
          /\ ~ret.threw
          /\ ~getValue(Leaf(ret.path)).threw
          /\ getValue(Leaf(ret.path)).value = ret.arg
    /\ \A q \in ComplexPaths(model) :
          HasPropertyNames(Leaf(q), getValue(Leaf(q)).value)

\* C16, on every read of the value of a composite: the read does not throw;
\* the record returned, and every record nested in it, is a new object, none
\* of the objects there were before the call, and no object there was is
\* changed; it holds the value of the composite, with exactly the property
\* names as keys; and when the call before was the assignment to that
\* composite of a record with exactly the declared keys, it equals that record.
C16_ReadReturnsFreshRecord ==
    (ret'.op = "getValue" /\ Leaf(ret'.path).type = "complex") =>
        /\ ~ret'.threw
        /\ ret'.value.k = "ref"
        /\ RecordsOf(heap', ret'.value) \cap DOMAIN heap = {}
        /\ \A a \in DOMAIN heap : heap'[a] = heap[a]
        /\ Contents(heap', ret'.value) = getValue(Leaf(ret'.path)).value
        /\ HasPropertyNames(Leaf(ret'.path), Contents(heap', ret'.value))
        /\ (ret.op = "setValue" /\ ret.path = ret'.path
                /\ IsTotal(Leaf(ret.path), ret.arg)) =>
              Contents(heap', ret'.value) = ret.arg

\* C16: after a composite (built from a flat or a nested definition) has been
\* assigned a record with exactly the declared keys at every nesting level,
\* get value returns a record equal to it; get value returns a new record on
\* each call, with exactly the property names of the composite as keys.
C16_CompositeValueRoundTrips ==
    [] C16_ValueIsTheRecordAssigned /\ [][C16_ReadReturnsFreshRecord]_vars

\* C16: the value of the root of a tree with a nested group has been read a
\* second time with the same values in the leaves, "abc" beside the group and
\* undefined in it: the record returned equals the one returned before, and
\* it and its nested record are other objects than the ones returned before
C16_Witness ==
    /\ ret.op = "getValue" /\ ret.path = <<>> /\ model.type = "complex"
    /\ ret.value.k = "ref"
    /\ \E p \in LeafPaths(model), q \in LeafPaths(model) :
        /\ Len(p) = 1 /\ Len(q) >= 2
        /\ ValueAt(Contents(heap, ret.value), p) = Str("abc")
        /\ ValueAt(Contents(heap, ret.value), q) = Undefined
    /\ \E b \in DOMAIN heap :
        /\ Contents(heap, Ref(b)) = Contents(heap, ret.value)
        /\ RecordsOf(heap, Ref(b)) \cap RecordsOf(heap, ret.value) = {}

\* the initial value the caller supplied, as it was at construction
SuppliedValue == Get(input.options, "initialValue")

\* C17: whatever the caller does to the value the node returns, the node's
\* retained initial value and the caller's own initial value keep the content
\* supplied at construction, nested elements included, and the value right
\* after a reset() has that content.
C17_ResetSnapshotIsIndependent ==
    /\ Deep(heap, model.initialValue) = SuppliedValue
    /\ Deep(heap, Get(model.options, "initialValue")) = SuppliedValue
    /\ ret.op = "reset" => Deep(heap, model.state.value) = SuppliedValue

\* the mode the caller gave the tree builder: exhaustive when the options are
\* given and their validateAllRules is true
GlobalExhaustive ==
    /\ input.options # Undefined
    /\ Boolean(Get(input.options, "validateAllRules"))

\* C18: in every state of a tree, every leaf at every depth carries the mode
\* given to the tree builder, short-circuit when no options were given; and a
\* validate() of a leaf has evaluated its whole chain when that mode is
\* exhaustive, and has stopped at the first rejecting rule when it is not.
C18_GlobalModeIsEveryLeafMode ==
    input.class = "ComplexModel" =>
        /\ \A p \in LeafPaths(model) :
              /\ ShortCircuit(Leaf(p)) = ~GlobalExhaustive
              /\ input.options = Undefined =>
                    Get(Leaf(p).options, "validateAllRules") = Bool(FALSE)
        /\ (ret.op = "validate" /\ Leaf(ret.path).type = "scalar") =>
              ret.calls = IF ~GlobalExhaustive /\ Rejecting(Leaf(ret.path)) # {}
                          THEN SubSeq(Leaf(ret.path).rules, 1, FirstRejecting(Leaf(ret.path)))
                          ELSE Leaf(ret.path).rules

\* C18: in a tree built in exhaustive mode, a leaf of a nested group that holds
\* "abc" has been validated after other calls: both its rules were evaluated
\* though the first one rejects
C18_Witness ==
    /\ input.class = "ComplexModel" /\ GlobalExhaustive
    /\ ret.op = "validate" /\ Len(ret.path) >= 2
    /\ Leaf(ret.path).type = "scalar"
    /\ Leaf(ret.path).state.value = Str("abc")
    /\ ret.calls = <<"mustBeNumber", "nonNullable">>

\* the property names of every composite of a tree, by the path of the composite
PropertyNames(m) ==
    [q \in ComplexPaths(m) |-> {At(m, q).keys[i] : i \in 1..Len(At(m, q).keys)}]

\* the members of every composite of a tree, by the path of the composite
Members(m) == [q \in ComplexPaths(m) |-> DOMAIN At(m, q).fields]

\* C19: a value write, validate() or reset() on a member leaves the state
\* (value, touched and rejections) of every leaf that is not the member and
\* not under it as it was, and after it every composite has the property
\* names it had at construction.
C19_LeavesAreIsolated ==
    [][ /\ \A p \in LeafPaths(model) :
              ~IsPrefix(ret'.path, p) =>
                  /\ p \in LeafPaths(model')
                  /\ heap'[At(model', p).state.a] = heap[At(model, p).state.a]
        /\ PropertyNames(model') = PropertyNames(New(input))
        /\ Members(model') = Members(New(input))
        /\ LeafPaths(model') = LeafPaths(New(input)) ]_vars

\* C19: validate() of the nested group has rejected the value of its leaf,
\* and the leaf beside the group, written before, holds what was written to
\* it: "abc", touched, with no rejections
C19_Witness ==
    /\ ret.op = "validate" /\ ret.path = <<"g">>
    /\ <<"a">> \in LeafPaths(model)
    /\ heap[At(model, <<"a">>).state.a].value = Str("abc")
    /\ heap[At(model, <<"a">>).state.a].touched
    /\ heap[At(model, <<"a">>).state.a].rejections = Arr(<<>>)
    /\ \E p \in LeafPaths(model) :
          /\ IsPrefix(<<"g">>, p)
          /\ heap[At(model, p).state.a].touched
          /\ heap[At(model, p).state.a].rejections = Arr(<<Str(NonNullableMessage)>>)

====
